---- MODULE Spec2Model ----
(***************************************************************************)
(* aishell (src/src/main.rs): a read-eval loop that sends the conversation *)
(* context to a chat model, runs the bash commands the model asks for as   *)
(* concurrently spawned tasks, appends their results to the context and    *)
(* asks the model again until it answers with text.                        *)
(*                                                                         *)
(* Option<T> is modelled as a sequence of length 0 (None) or 1 (Some(x)).  *)
(*                                                                         *)
(* The environment: the chat service answers a request with any response   *)
(* (or the request fails), and gives every tool call an id of its own; a   *)
(* command may fail to spawn, fail while waited for, or run; stdout may be *)
(* unwritable (print! then panics inside the task); stderr is writable and *)
(* the message builders do not fail; saving the history may fail.          *)
(***************************************************************************)
EXTENDS Naturals, Sequences, FiniteSets

\* ------------------------------------------------------------------------
\* Bounds of the model
\* ------------------------------------------------------------------------

\* input lines read at the prompt in one run
MaxLines == 2
\* model requests made in one run
MaxRequests == 3
\* tool calls issued by the model in one run
MaxCalls == 2

VARIABLES
    pc,         \* position of main / handle_command / ai
    line,       \* handle_command's `line` (None until readline returned one)
    ctx,        \* the context: Vec<ChatCompletionRequestMessage>
    outcome,    \* what handle_command returned (an Option<Result>)
    response,   \* the chat response ai() is working on (None before it arrives)
    handles,    \* ai's `handles`: the tasks spawned for the current batch
    joined,     \* how many handles the join loop of ai has consumed
    orphans,    \* spawned tasks whose JoinHandle was dropped by a bail
    sent,       \* ai's `request`: the messages of the latest model request of the turn
    requests,   \* model requests made in the current turn
    exit,       \* what main returned (None while it runs)
    lines,      \* input lines read so far
    total,      \* model requests made so far
    issued      \* tool calls issued by the model so far

vars == <<pc, line, ctx, outcome, response, handles, joined, orphans, sent, requests,
          exit, lines, total, issued>>

None == <<>>
Some(x) == <<x>>
IsSome(o) == Len(o) = 1
Unwrap(o) == o[1]

\* ------------------------------------------------------------------------
\* Messages of the context
\* ------------------------------------------------------------------------

SystemPrompt == <<"Use the exec tool to run bash commands">>

SystemMsg(text) ==
    [role |-> "system", content |-> Some(text), tool_calls |-> None, tool_call_id |-> None]

UserMsg(text) ==
    [role |-> "user", content |-> Some(text), tool_calls |-> None, tool_call_id |-> None]

AssistantMsg(tool_calls) ==
    [role |-> "assistant", content |-> None, tool_calls |-> Some(tool_calls),
     tool_call_id |-> None]

ToolMsg(content, id) ==
    [role |-> "tool", content |-> Some(content), tool_calls |-> None, tool_call_id |-> Some(id)]

init_context == <<SystemMsg(SystemPrompt)>>

\* mutant: every prompt starts from a fresh context
add_prompt_afresh(c, prompt) == <<c[1], UserMsg(prompt)>>

add_prompt(c, prompt) == Append(c, UserMsg(prompt))

\* ------------------------------------------------------------------------
\* Input lines
\* ------------------------------------------------------------------------

\* a line is a sequence of tokens; " " is whitespace
Lines == { <<"clear">>, <<" ", "clear", " ">>, <<"ls">> }

RECURSIVE TrimStart(_)
TrimStart(s) == IF s # <<>> /\ Head(s) = " " THEN TrimStart(Tail(s)) ELSE s

RECURSIVE TrimEnd(_)
TrimEnd(s) ==
    IF s # <<>> /\ s[Len(s)] = " " THEN TrimEnd(SubSeq(s, 1, Len(s) - 1)) ELSE s

\* str::trim
Trim(s) == TrimEnd(TrimStart(s))

IsClear(l) == Trim(l) = <<"clear">>

\* ------------------------------------------------------------------------
\* Errors and results
\* ------------------------------------------------------------------------

Err(type, what) == [ok |-> FALSE, type |-> type, what |-> what, val |-> None]
Ok(v) == [ok |-> TRUE, type |-> "", what |-> "", val |-> v]

\* what rl.readline (and env::current_dir before it) can fail with
ReadlineEof == Err("ReadlineError", "Eof")
ReadlineInterrupted == Err("ReadlineError", "Interrupted")
ReadlineIo == Err("ReadlineError", "Io")
CurrentDirError == Err("io::Error", "current_dir")

\* what ai() can fail with
RequestError == Err("OpenAIError", "request failed")
EmptyResponse == Err("eyre", "empty response")
NoContent == Err("eyre", "no content in response message")
UnknownFunction == Err("eyre", "unknown function")
DecodeError == Err("serde_json::Error", "invalid arguments")

\* ------------------------------------------------------------------------
\* Tool calls and their arguments
\* ------------------------------------------------------------------------

\* the JSON text of call.function.arguments: syntactically valid or not, and
\* which of the keys of ExecArgs it carries
Json(command, timeout, dangerous) ==
    [valid |-> TRUE, command |-> command, timeout |-> timeout, dangerous |-> dangerous]

Garbage == [valid |-> FALSE, command |-> None, timeout |-> None, dangerous |-> None]
Plain == Json(Some("ls"), None, None)
Timed == Json(Some("ls"), Some(10), None)
Danger == Json(Some("ls"), None, Some(TRUE))
NoCommand == Json(None, None, Some(FALSE))

ArgumentTexts == {Garbage, Plain, Timed, Danger, NoCommand}

ToolCall(id, name, arguments) == [id |-> id, name |-> name, arguments |-> arguments]

\* the function names and argument texts the model may send
Functions ==
    {[name |-> "exec", arguments |-> a] : a \in ArgumentTexts}
        \cup {[name |-> "eval", arguments |-> Plain]}

\* serde_json::from_str::<ExecArgs>: `command` is required, `timeout` is optional,
\* `dangerous` defaults to false
CanDecode(arguments) == arguments.valid /\ IsSome(arguments.command)

ExecArgs(arguments) ==
    [command |-> Unwrap(arguments.command),
     timeout |-> arguments.timeout,
     dangerous |-> IF IsSome(arguments.dangerous) THEN Unwrap(arguments.dangerous) ELSE FALSE]

\* mutant: the function name is not checked
KnownFunctionAny(call) == TRUE

KnownFunction(call) == call.name = "exec"

\* ------------------------------------------------------------------------
\* The chat service's responses
\* ------------------------------------------------------------------------

RECURSIVE SeqsUpTo(_, _)
SeqsUpTo(S, n) ==
    IF n = 0 THEN {<<>>}
    ELSE LET shorter == SeqsUpTo(S, n - 1)
         IN  shorter \cup {Append(q, x) : q \in {r \in shorter : Len(r) = n - 1}, x \in S}

Texts == {<<"answer">>}

\* response.choices[0].message
Message(tool_calls, content) ==
    [failed |-> FALSE, choices |-> 1, tool_calls |-> tool_calls, content |-> content]

RequestFailed == [failed |-> TRUE, choices |-> 0, tool_calls |-> None, content |-> None]
NoChoices == [failed |-> FALSE, choices |-> 0, tool_calls |-> None, content |-> None]

\* the service gives every tool call an id of its own: the calls issued so far
\* are numbered 1..from, those of this batch from + 1, from + 2, ...
Numbered(b, from) ==
    [k \in 1..Len(b) |-> ToolCall(from + k, b[k].name, b[k].arguments)]

\* what client.chat().create(request).await can produce when the model has issued
\* `from` tool calls and may still issue n
Responses(n, from) ==
    {RequestFailed, NoChoices}
        \cup {Message(tc, c) :
                tc \in {None} \cup {Some(Numbered(b, from)) : b \in SeqsUpTo(Functions, n)},
                c \in {None} \cup {Some(t) : t \in Texts}}

\* ------------------------------------------------------------------------
\* execute_bash, run as a spawned task
\* ------------------------------------------------------------------------

NoResult == Err("", "")

\* spawn(execute_bash(args.command, args.timeout, args.dangerous)), call.clone()
Task(call) ==
    [call |-> call, args |-> ExecArgs(call.arguments), st |-> "start", shell |-> FALSE,
     result |-> NoResult]

Finished(t) == t.st \in {"done", "panicked"}

\* serde_json::to_string of {exit_code, stdout, stderr}
OutputJson(exit_code) == <<"exit_code", exit_code, "stdout", "stderr">>

\* mutant: the dangerous flag is ignored
RefusedNever(args) == FALSE

Refused(args) == args.dangerous

\* execute_bash up to cmd.spawn(): the dangerous check, the warn! of the timeout
\* (no effect), the echo of the command, cmd.spawn()
ExecuteBashBegin(t) ==
    IF Refused(t.args)
    THEN {[t EXCEPT !.st = "done",
                    !.result = Err("eyre", "not executing dangerous command")]}
    ELSE {[t EXCEPT !.st = "done", !.result = Err("io::Error", "spawn")],
          [t EXCEPT !.st = "child", !.shell = TRUE]}

\* mutant: the wait is wrapped in a timeout of the supplied number of seconds
ExecuteBashEndTimeout(t) ==
    {[t EXCEPT !.st = "done", !.result = Err("io::Error", "wait")],
     [t EXCEPT !.st = "panicked"],
     [t EXCEPT !.st = "done", !.result = Ok(Some(OutputJson("0")))]}
        \cup (IF IsSome(t.args.timeout)
              THEN {[t EXCEPT !.st = "done", !.result = Err("Elapsed", "deadline has elapsed")]}
              ELSE {})

\* execute_bash from child.wait_with_output().await on: the wait, print! of the
\* captured stdout (it panics when stdout cannot be written, e.g. a closed pipe),
\* the JSON of the output
ExecuteBashEnd(t) ==
    {[t EXCEPT !.st = "done", !.result = Err("io::Error", "wait")],
     [t EXCEPT !.st = "panicked"],
     [t EXCEPT !.st = "done", !.result = Ok(Some(OutputJson("0")))]}

ExecuteBashStep(t) ==
    IF t.st = "start" THEN ExecuteBashBegin(t)
    ELSE IF t.st = "child" THEN ExecuteBashEnd(t)
    ELSE {}

\* response_content.unwrap_or_else(|e| format!("error: {e}"))
ToolContent(result) ==
    IF result.ok THEN Unwrap(result.val) ELSE <<"error: ", result.what>>

\* ------------------------------------------------------------------------
\* The state machine
\* ------------------------------------------------------------------------

Init ==
    /\ pc = "prompt"
    /\ line = None
    /\ ctx = init_context
    /\ outcome = None
    /\ response = None
    /\ handles = <<>>
    /\ joined = 0
    /\ orphans = <<>>
    /\ sent = <<>>
    /\ requests = 0
    /\ exit = None
    /\ lines = 0
    /\ total = 0
    /\ issued = 0

\* handle_command returns: the locals of ai() are gone
Returns(result) ==
    /\ outcome' = Some(result)
    /\ pc' = "save"

\* handle_command, lines 162-164: env::current_dir or rl.readline fails
ReadlineFails ==
    /\ pc = "prompt"
    /\ \E e \in {CurrentDirError, ReadlineEof, ReadlineInterrupted, ReadlineIo} : Returns(e)
    /\ UNCHANGED <<line, ctx, response, handles, joined, orphans, sent, requests, exit, lines,
                   total, issued>>

\* mutant: the reset empties the vector (ctx.clear()) instead of seeding it anew
ReadClearEmpties ==
    /\ pc = "prompt"
    /\ lines < MaxLines
    /\ \E l \in Lines :
        /\ line' = Some(l)
        /\ IsClear(l)
        /\ ctx' = <<>>
        /\ Returns(Ok(None))
    /\ lines' = lines + 1
    /\ UNCHANGED <<response, handles, joined, orphans, sent, requests, exit, total, issued>>

\* handle_command, lines 165-169: the line trims to "clear"
ReadClear ==
    /\ pc = "prompt"
    /\ lines < MaxLines
    /\ \E l \in Lines :
        /\ line' = Some(l)
        /\ IsClear(l)
        /\ ctx' = init_context
        /\ Returns(Ok(None))
    /\ lines' = lines + 1
    /\ UNCHANGED <<response, handles, joined, orphans, sent, requests, exit, total, issued>>

\* handle_command, line 170: any other line becomes a User message and ai() is called
ReadPrompt ==
    /\ pc = "prompt"
    /\ lines < MaxLines
    /\ total < MaxRequests
    /\ \E l \in Lines :
        /\ line' = Some(l)
        /\ ~IsClear(l)
        /\ ctx' = add_prompt(ctx, l)
    /\ pc' = "ai"
    /\ lines' = lines + 1
    /\ UNCHANGED <<requests, outcome, response, handles, joined, orphans, sent, exit, total, issued>>

\* mutant: ai gives up at its third request of a turn
AiRequestCapped ==
    /\ pc = "ai"
    /\ IF requests >= 2
       THEN /\ Returns(Err("eyre", "too many requests"))
            /\ UNCHANGED <<sent, requests, total, response>>
       ELSE /\ sent' = ctx
            /\ requests' = requests + 1
            /\ total' = total + 1
            /\ response' = None
            /\ pc' = "awaitModel"
            /\ outcome' = outcome
    /\ UNCHANGED <<line, ctx, handles, joined, orphans, exit, lines, issued>>

\* ai, lines 43-77: the request carries all of ctx
AiRequest ==
    /\ pc = "ai"
    /\ sent' = ctx
    /\ requests' = requests + 1
    /\ total' = total + 1
    /\ response' = None
    /\ pc' = "awaitModel"
    /\ UNCHANGED <<line, ctx, outcome, handles, joined, orphans, exit, lines, issued>>

\* mutant: a tool-call list that holds no call counts as no list
AiBranchNonEmpty(r) ==
    IF r.failed THEN "request failed"
    ELSE IF r.choices = 0 THEN "empty"
    ELSE IF IsSome(r.tool_calls) /\ Unwrap(r.tool_calls) # <<>> THEN "tools"
    ELSE IF ~IsSome(r.content) THEN "no content"
    ELSE "text"

\* the branch ai takes on a response, lines 77-117
AiBranch(r) ==
    IF r.failed THEN "request failed"
    ELSE IF r.choices = 0 THEN "empty"
    ELSE IF IsSome(r.tool_calls) THEN "tools"
    ELSE IF ~IsSome(r.content) THEN "no content"
    ELSE "text"

\* the responses the bounds of the model leave to the service
AllowedResponses ==
    IF total < MaxRequests
    THEN Responses(MaxCalls - issued, issued)
    ELSE {r \in Responses(0, issued) : ~IsSome(r.tool_calls)}

\* ai, lines 77-84 and 114-117: the response arrives
AiResponse ==
    /\ pc = "awaitModel"
    /\ \E r \in AllowedResponses :
        /\ response' = Some(r)
        /\ issued' = issued + (IF IsSome(r.tool_calls) THEN Len(Unwrap(r.tool_calls)) ELSE 0)
        /\ CASE AiBranch(r) = "request failed" -> Returns(RequestError)
             [] AiBranch(r) = "empty" -> Returns(EmptyResponse)
             [] AiBranch(r) = "no content" -> Returns(NoContent)
             [] AiBranch(r) = "text" -> Returns(Ok(r.content))
             [] AiBranch(r) = "tools" -> pc' = "validate" /\ outcome' = outcome
    /\ handles' = <<>>
    /\ joined' = 0
    /\ UNCHANGED <<line, ctx, orphans, sent, requests, exit, lines, total>>

tool_calls == Unwrap(Unwrap(response).tool_calls)

\* mutant: the tasks started so far are aborted when the loop bails
ValidateCallAborts ==
    /\ pc = "validate"
    /\ Len(handles) < Len(tool_calls)
    /\ LET call == tool_calls[Len(handles) + 1]
       IN  IF ~KnownFunction(call)
           THEN Returns(UnknownFunction) /\ handles' = <<>>
           ELSE IF ~CanDecode(call.arguments)
           THEN Returns(DecodeError) /\ handles' = <<>>
           ELSE /\ handles' = Append(handles, Task(call))
                /\ UNCHANGED <<pc, outcome>>
    /\ UNCHANGED <<line, ctx, response, joined, orphans, sent, requests, exit, lines, total, issued>>

\* ai, lines 85-94: one iteration of the loop over tool_calls
ValidateCall ==
    /\ pc = "validate"
    /\ Len(handles) < Len(tool_calls)
    /\ LET call == tool_calls[Len(handles) + 1]
       IN  IF ~KnownFunction(call)
           THEN Returns(UnknownFunction) /\ handles' = handles
           ELSE IF ~CanDecode(call.arguments)
           THEN Returns(DecodeError) /\ handles' = handles
           ELSE /\ handles' = Append(handles, Task(call))
                /\ UNCHANGED <<pc, outcome>>
    /\ UNCHANGED <<line, ctx, response, joined, orphans, sent, requests, exit, lines, total, issued>>

\* mutant: the Assistant message is not pushed before the results are
PushAssistantOmitted ==
    /\ pc = "validate"
    /\ Len(handles) = Len(tool_calls)
    /\ pc' = "join"
    /\ UNCHANGED <<line, ctx, outcome, response, handles, joined, orphans, sent, requests,
                   exit, lines, total, issued>>

\* ai, lines 95-100: the loop is over, the Assistant message is pushed
PushAssistant ==
    /\ pc = "validate"
    /\ Len(handles) = Len(tool_calls)
    /\ ctx' = Append(ctx, AssistantMsg(tool_calls))
    /\ pc' = "join"
    /\ UNCHANGED <<line, outcome, response, handles, joined, orphans, sent, requests, exit, lines,
                   total, issued>>

\* mutant: only the output of a command that ran is pushed
JoinedOkOnly(c, t) ==
    IF t.st = "done" /\ t.result.ok
    THEN Append(c, ToolMsg(ToolContent(t.result), t.call.id))
    ELSE c

\* mutant: a task that cannot be joined is answered with an error string too
JoinedAlways(c, t) ==
    IF t.st = "done"
    THEN Append(c, ToolMsg(ToolContent(t.result), t.call.id))
    ELSE Append(c, ToolMsg(<<"error: ", "task panicked">>, t.call.id))

\* the context after `handle.await` returned for task t, lines 102-110
Joined(c, t) ==
    IF t.st = "done" THEN Append(c, ToolMsg(ToolContent(t.result), t.call.id)) ELSE c

\* mutant: the handles are popped off the end of the vector
JoinNextPop ==
    /\ pc = "join"
    /\ joined < Len(handles)
    /\ Finished(handles[Len(handles) - joined])
    /\ ctx' = Joined(ctx, handles[Len(handles) - joined])
    /\ joined' = joined + 1
    /\ UNCHANGED <<line, pc, outcome, response, handles, orphans, sent, requests, exit, lines,
                   total, issued>>

\* mutant: the handle is not awaited, the loop goes on with whatever the task
\* has produced so far
JoinNextNoWait ==
    /\ pc = "join"
    /\ joined < Len(handles)
    /\ ctx' = Joined(ctx, handles[joined + 1])
    /\ joined' = joined + 1
    /\ UNCHANGED <<line, pc, outcome, response, handles, orphans, sent, requests, exit, lines,
                   total, issued>>

\* ai, lines 101-111: one iteration of the loop over handles
JoinNext ==
    /\ pc = "join"
    /\ joined < Len(handles)
    /\ Finished(handles[joined + 1])
    /\ ctx' = Joined(ctx, handles[joined + 1])
    /\ joined' = joined + 1
    /\ UNCHANGED <<line, pc, outcome, response, handles, orphans, sent, requests, exit, lines,
                   total, issued>>

\* ai, line 112: every handle is joined, ai calls itself
Recurse ==
    /\ pc = "join"
    /\ joined = Len(handles)
    /\ pc' = "ai"
    /\ handles' = <<>>
    /\ joined' = 0
    /\ UNCHANGED <<line, ctx, outcome, response, orphans, sent, requests, exit, lines, total, issued>>

\* a task of the current batch runs on the runtime's worker threads
TaskStep ==
    /\ exit = None
    /\ \E k \in 1..Len(handles) :
        \E t \in ExecuteBashStep(handles[k]) :
            handles' = [handles EXCEPT ![k] = t]
    /\ UNCHANGED <<line, pc, ctx, outcome, response, joined, orphans, sent, requests, exit, lines,
                   total, issued>>

Remove(s, k) == SubSeq(s, 1, k - 1) \o SubSeq(s, k + 1, Len(s))

\* a task whose JoinHandle was dropped keeps running; nobody reads its result
OrphanStep ==
    /\ exit = None
    /\ \E k \in 1..Len(orphans) :
        \E t \in ExecuteBashStep(orphans[k]) :
            orphans' = IF Finished(t) THEN Remove(orphans, k) ELSE [orphans EXCEPT ![k] = t]
    /\ UNCHANGED <<line, pc, ctx, outcome, response, handles, joined, sent, requests, exit, lines,
                   total, issued>>

RECURSIVE Unfinished(_)
Unfinished(s) ==
    IF s = <<>> THEN <<>>
    ELSE IF Finished(Head(s)) THEN Unfinished(Tail(s))
    ELSE <<Head(s)>> \o Unfinished(Tail(s))

\* mutant: every error ends the loop
IsUserAbortAny(e) == TRUE

\* e.downcast_ref::<ReadlineError>() is Eof or Interrupted, lines 211-212
IsUserAbort(e) == e.type = "ReadlineError" /\ e.what \in {"Eof", "Interrupted"}

\* mutant: end of input and an interrupt are reported like any other error
LoopBranchNoReturn(o) ==
    IF o.ok THEN "next" ELSE "report"

\* what the match of main does with the outcome, lines 208-219
LoopBranch(o) ==
    IF o.ok THEN "next"
    ELSE IF IsUserAbort(o) THEN "return"
    ELSE "report"

\* main, line 207: rl.save_history fails and main returns the error; the process
\* ends: the runtime is dropped and with it every task still running
SaveHistoryFails ==
    /\ pc = "save"
    /\ exit' = Some(Err("ReadlineError", "save_history"))
    /\ pc' = "exited"
    /\ line' = None
    /\ outcome' = None
    /\ response' = None
    /\ handles' = <<>>
    /\ joined' = 0
    /\ orphans' = <<>>
    /\ sent' = <<>>
    /\ requests' = 0
    /\ UNCHANGED <<ctx, lines, total, issued>>

\* main, lines 207-215: the history is saved and the outcome is matched; on Ok the
\* loop goes on, on end of input or an interrupt main returns Ok, any other error
\* is to be printed. The locals of handle_command and ai are gone; the tasks
\* whose handles were dropped keep running unless the process ends.
MainLoop ==
    /\ pc = "save"
    /\ pc' = CASE LoopBranch(Unwrap(outcome)) = "next" -> "prompt"
              [] LoopBranch(Unwrap(outcome)) = "return" -> "exited"
              [] LoopBranch(Unwrap(outcome)) = "report" -> "report"
    /\ exit' = IF LoopBranch(Unwrap(outcome)) = "return" THEN Some(Ok(None)) ELSE exit
    /\ outcome' = IF LoopBranch(Unwrap(outcome)) = "report" THEN outcome ELSE None
    /\ orphans' = IF LoopBranch(Unwrap(outcome)) = "return"
                  THEN <<>>
                  ELSE orphans \o Unfinished(handles)
    /\ line' = None
    /\ response' = None
    /\ handles' = <<>>
    /\ joined' = 0
    /\ sent' = <<>>
    /\ requests' = 0
    /\ UNCHANGED <<ctx, lines, total, issued>>

\* mutant: the context is reset when a turn has failed
ReportErrorResets ==
    /\ pc = "report"
    /\ pc' = "prompt"
    /\ outcome' = None
    /\ ctx' = init_context
    /\ UNCHANGED <<line, response, handles, joined, orphans, sent, requests, exit, lines,
                   total, issued>>

\* main, lines 216-217: the error is printed and the loop goes on
ReportError ==
    /\ pc = "report"
    /\ pc' = "prompt"
    /\ outcome' = None
    /\ UNCHANGED <<line, ctx, response, handles, joined, orphans, sent, requests, exit, lines,
                   total, issued>>

Next ==
    \/ ReadlineFails
    \/ ReadClear
    \/ ReadPrompt
    \/ AiRequest
    \/ AiResponse
    \/ ValidateCall
    \/ PushAssistant
    \/ JoinNext
    \/ Recurse
    \/ TaskStep
    \/ OrphanStep
    \/ SaveHistoryFails
    \/ MainLoop
    \/ ReportError

Spec == Init /\ [][Next]_vars

\* ------------------------------------------------------------------------
\* Properties
\* ------------------------------------------------------------------------

\* a call as the claims call it valid: it names exec and its arguments are a JSON
\* object with a command
WellFormed(call) ==
    call.name = "exec" /\ call.arguments.valid /\ call.arguments.command # None

ToolsRequested == IsSome(response) /\ AiBranch(Unwrap(response)) = "tools"

\* the number of the first n handles whose task ended normally
Done(n) == Cardinality({m \in 1..n : handles[m].st = "done"})

\* the Tool message of the k-th handle, once it is joined, is message `msg`
Answer(k, msg) ==
    /\ Len(ctx) >= Len(sent) + 1 + Done(k)
    /\ ctx[Len(sent) + 1 + Done(k)] = msg

DangerousRejection == <<"error: ", "not executing dangerous command">>

\* C1: while a batch all of whose calls are valid is joined, and as long as no
\* joined task panicked, the context is the context of the request, then the
\* Assistant message of the batch, then one Tool message per joined call, the
\* k-th carrying the id of the k-th call; when all N are joined there are N.
C1_ToolMessagesInIssueOrder ==
    (pc = "join" /\ \A k \in 1..joined : handles[k].st = "done") =>
        /\ Len(handles) = Len(tool_calls)
        /\ \A k \in 1..Len(tool_calls) : WellFormed(tool_calls[k])
        /\ Len(ctx) = Len(sent) + 1 + joined
        /\ SubSeq(ctx, 1, Len(sent)) = sent
        /\ ctx[Len(sent) + 1] = AssistantMsg(tool_calls)
        /\ \A k \in 1..joined :
            /\ ctx[Len(sent) + 1 + k].role = "tool"
            /\ ctx[Len(sent) + 1 + k].tool_call_id = Some(tool_calls[k].id)

\* a batch of two calls is joined completely, none of the tasks panicked
C1_Witness ==
    /\ pc = "join"
    /\ joined = 2
    /\ Len(handles) = 2
    /\ \A k \in 1..2 : handles[k].st = "done"
    /\ handles[1].result.ok
    /\ ~handles[2].result.ok

\* C2 as stated: a call decoded with dangerous = true never has a shell spawned;
\* its task ends with the rejection, the turn is not aborted and, once the call
\* is joined, the context holds a Tool message with its id and the rejection.
C2_DangerousAlwaysAnswered ==
    /\ \A k \in 1..Len(orphans) : orphans[k].args.dangerous => ~orphans[k].shell
    /\ \A k \in 1..Len(handles) :
        handles[k].args.dangerous =>
            /\ ~handles[k].shell
            /\ handles[k].st \in {"start", "done"}
            /\ pc \in {"validate", "join"}
            /\ (pc = "join" /\ k <= joined) =>
                Answer(k, ToolMsg(DangerousRejection, handles[k].call.id))

\* C2 amended: a call decoded with dangerous = true never has a shell spawned and
\* its task ends with the rejection, while main stays inside ai (it reads no
\* line); when every call of its batch is valid the turn is not aborted and,
\* once the call is joined, the context holds a Tool message with its id and
\* the rejection.
C2_DangerousNeverRuns ==
    /\ \A k \in 1..Len(orphans) : orphans[k].args.dangerous => ~orphans[k].shell
    /\ \A k \in 1..Len(handles) :
        handles[k].args.dangerous =>
            /\ ~handles[k].shell
            /\ handles[k].st \in {"start", "done"}
            /\ handles[k].st = "done" =>
                handles[k].result = Err("eyre", "not executing dangerous command")
            /\ pc \in {"validate", "join", "save"}
            /\ (\A m \in 1..Len(tool_calls) : WellFormed(tool_calls[m])) =>
                /\ pc \in {"validate", "join"}
                /\ outcome = None
            /\ (pc = "join" /\ k <= joined) =>
                Answer(k, ToolMsg(DangerousRejection, handles[k].call.id))

\* a dangerous call and a plain one were issued together; both are joined, the
\* plain one ran in a shell
C2_Witness ==
    /\ pc = "join"
    /\ joined = 2
    /\ Len(handles) = 2
    /\ handles[1].args.dangerous
    /\ handles[2].shell
    /\ handles[2].st = "done"

\* C3: when a batch holds a call that names another function than exec or whose
\* arguments do not decode, the batch is never accepted: the context stays the
\* context of the request (no Assistant and no Tool message), and the turn ends
\* with the error of the unknown function or of the decoding.
C3_InvalidCallAbortsBatch ==
    (ToolsRequested /\ \E k \in 1..Len(tool_calls) : ~WellFormed(tool_calls[k])) =>
        /\ ctx = sent
        /\ pc \in {"validate", "save"}
        /\ pc = "save" => outcome \in {Some(UnknownFunction), Some(DecodeError)}
        /\ joined = 0

\* the second call of a batch is invalid: the first one was started, the turn failed
C3_Witness ==
    /\ pc = "save"
    /\ ToolsRequested
    /\ Len(tool_calls) = 2
    /\ Len(handles) = 1
    /\ handles[1].shell
    /\ outcome = Some(DecodeError)

\* a message that carries no tool call: no list, or a list of none
NoToolCalls(r) == r.tool_calls = None \/ r.tool_calls = Some(<<>>)

Answered == IsSome(response) /\ ~Unwrap(response).failed

ServiceErrors == {EmptyResponse, NoContent}
ProtocolErrors == {UnknownFunction, DecodeError}

\* C4 as stated: after a response with no choices, or with a message that has
\* neither tool calls nor content, ai has failed with the ServiceError, nothing
\* was dispatched, no further request follows and the context is the one that
\* was sent.
C4_MalformedResponseFails ==
    (Answered /\ (Unwrap(response).choices = 0
                    \/ (NoToolCalls(Unwrap(response)) /\ Unwrap(response).content = None))) =>
        /\ pc = "save"
        /\ outcome \in {Some(e) : e \in ServiceErrors}
        /\ handles = <<>>
        /\ ctx = sent

\* C5 as stated: after a first response with text and no tool calls the turn is
\* over: one request was made, nothing was dispatched, handle_command got the
\* text and the context is the one that was sent, ending with the User message.
C5_FinalTextEndsTurn ==
    (Answered /\ requests = 1 /\ Unwrap(response).choices = 1
        /\ NoToolCalls(Unwrap(response)) /\ IsSome(Unwrap(response).content)) =>
        /\ pc = "save"
        /\ outcome = Some(Ok(Unwrap(response).content))
        /\ handles = <<>>
        /\ ctx = sent
        /\ ctx[Len(ctx)] = UserMsg(Unwrap(line))

\* C6: once the line "clear" is read, whatever happened before, the context is
\* the single System message, handle_command has returned Ok without calling
\* ai (no request is made for the line) and no User message was appended.
C6_ClearResets ==
    line = Some(<<"clear">>) =>
        /\ Len(ctx) = 1
        /\ ctx[1].role = "system"
        /\ pc = "save"
        /\ outcome = Some(Ok(None))
        /\ response = None

\* "clear" is read after a turn in which a tool batch ran and the model failed
C6_Witness ==
    /\ line = Some(<<"clear">>)
    /\ Len(ctx) = 1
    /\ issued = 2
    /\ total = 2

\* C7: every Tool message of the context follows an Assistant message with only
\* Tool messages in between, and its tool_call_id is the id of one of that
\* Assistant message's tool calls.
C7_ToolFollowsItsAssistant ==
    \A m \in 1..Len(ctx) :
        ctx[m].role = "tool" =>
            \E a \in 1..(m - 1) :
                /\ ctx[a].role = "assistant"
                /\ \A x \in (a + 1)..(m - 1) : ctx[x].role = "tool"
                /\ \E k \in 1..Len(Unwrap(ctx[a].tool_calls)) :
                    Some(Unwrap(ctx[a].tool_calls)[k].id) = ctx[m].tool_call_id

\* two batches of one call each were answered in one turn
C7_Witness ==
    /\ Len(ctx) = 6
    /\ ctx[3].role = "assistant"
    /\ ctx[4].role = "tool"
    /\ ctx[5].role = "assistant"
    /\ ctx[6].role = "tool"

IsPrefix(s, t) == Len(s) <= Len(t) /\ SubSeq(t, 1, Len(s)) = s

\* C8: the first message of the context is always the System message, and every
\* step either extends the context (the old context is a prefix of the new one)
\* or is the reset on a line that trims to "clear".
C8_AppendOnly ==
    /\ [](Len(ctx) >= 1 /\ ctx[1] = SystemMsg(SystemPrompt))
    /\ [][\/ IsPrefix(ctx, ctx')
          \/ /\ pc = "prompt"
             /\ IsSome(line')
             /\ Trim(Unwrap(line')) = <<"clear">>
             /\ ctx' = <<SystemMsg(SystemPrompt)>>]_vars

\* a second prompt was appended after a turn that ended in an error and left
\* its messages in the context
C8_Witness ==
    /\ pc = "ai"
    /\ lines = 2
    /\ Len(ctx) >= 5
    /\ ctx[Len(ctx)].role = "user"

\* a task whose command could not be spawned or waited for
IoFailed(t) == t.st = "done" /\ ~t.result.ok /\ t.result.type = "io::Error"

\* C9 as stated: when cmd.spawn() or the wait fails for a call, the turn is not
\* aborted and, once the call is joined, the context holds a Tool message with
\* its id and the error string.
C9_FailureAlwaysAnswered ==
    \A k \in 1..Len(handles) :
        IoFailed(handles[k]) =>
            /\ pc \in {"validate", "join"}
            /\ (pc = "join" /\ k <= joined) =>
                Answer(k, ToolMsg(<<"error: ", handles[k].result.what>>, handles[k].call.id))

\* C9 amended: when cmd.spawn() or the wait fails for a call of a batch all of
\* whose calls are valid, the turn is not aborted and, once the call is joined,
\* the context holds a Tool message with its id and the error string; the
\* joined siblings that ran have their own output in their own Tool message.
C9_FailureIsLocal ==
    \A k \in 1..Len(handles) :
        IoFailed(handles[k]) =>
            /\ (\A m \in 1..Len(tool_calls) : WellFormed(tool_calls[m])) =>
                /\ pc \in {"validate", "join"}
                /\ outcome = None
            /\ (pc = "join" /\ k <= joined) =>
                Answer(k, ToolMsg(<<"error: ", handles[k].result.what>>, handles[k].call.id))
            /\ \A m \in 1..Len(handles) :
                (pc = "join" /\ m <= joined /\ handles[m].st = "done" /\ handles[m].result.ok) =>
                    Answer(m, ToolMsg(Unwrap(handles[m].result.val), handles[m].call.id))

\* the first command of a batch could not be spawned, the second one ran; both
\* are joined
C9_Witness ==
    /\ pc = "join"
    /\ joined = 2
    /\ Len(handles) = 2
    /\ IoFailed(handles[1])
    /\ handles[1].result.what = "spawn"
    /\ handles[2].st = "done"
    /\ handles[2].result.ok

TurnFailures == ServiceErrors \cup ProtocolErrors \cup {RequestError}

\* C10 as stated: main never returns after a turn that failed in ai.
C10_FailureNeverExits ==
    [][(pc = "save" /\ Unwrap(outcome) \in TurnFailures) => pc' # "exited"]_vars

\* C10 amended: after a turn that failed in ai, main returns only when saving
\* the history failed, and then with that error; otherwise the error is printed
\* and the loop is back at the prompt.
C10_FailureExitsOnlyOnSaveError ==
    /\ [][(pc = "save" /\ pc' # "save" /\ Unwrap(outcome) \in TurnFailures) =>
            \/ pc' = "report" /\ outcome' = outcome /\ exit' = None
            \/ pc' = "exited" /\ exit' = Some(Err("ReadlineError", "save_history"))]_vars
    /\ [][(pc = "report" /\ pc' # "report") => (pc' = "prompt" /\ exit' = None)]_vars

\* a turn failed in its second request, after a tool batch was answered; the
\* history was saved and the error is printed before the next prompt
C10_Witness ==
    /\ pc = "report"
    /\ outcome = Some(NoContent)
    /\ lines = 1
    /\ total = 2
    /\ Len(ctx) >= 4
    /\ ctx[3].role = "assistant"
    /\ exit = None

UserAborts == {ReadlineEof, ReadlineInterrupted}

SaveError == Err("ReadlineError", "save_history")

\* C11 as stated: after end of input or an interrupt at the prompt main returns
\* with success, nothing else makes main return, and no request was made for
\* the line that was not read.
C11_AbortAlwaysSucceeds ==
    /\ [][(pc = "save" /\ pc' # "save" /\ Unwrap(outcome) \in UserAborts) =>
            (pc' = "exited" /\ exit' = Some(Ok(None)))]_vars
    /\ [][(pc # "exited" /\ pc' = "exited") =>
            (pc = "save" /\ Unwrap(outcome) \in UserAborts)]_vars
    /\ []((pc = "save" /\ Unwrap(outcome) \in UserAborts) =>
            (requests = 0 /\ response = None /\ sent = <<>>))

\* C11 amended: after end of input or an interrupt at the prompt main returns,
\* with success when the history was saved and with the error of the save
\* otherwise; main returns with success after nothing else, and returns at all
\* only after one of the two or when saving the history failed; no request was
\* made for the line that was not read.
C11_AbortEndsProgram ==
    /\ [](IsSome(exit) => exit \in {Some(Ok(None)), Some(SaveError)})
    /\ [][(pc = "save" /\ pc' # "save" /\ Unwrap(outcome) \in UserAborts) =>
            (pc' = "exited" /\ exit' \in {Some(Ok(None)), Some(SaveError)})]_vars
    /\ [][(pc # "exited" /\ pc' = "exited") =>
            /\ pc = "save"
            /\ exit = None
            /\ exit' = Some(Ok(None)) => Unwrap(outcome) \in UserAborts
            /\ Unwrap(outcome) \notin UserAborts => exit' = Some(SaveError)]_vars
    /\ []((pc = "save" /\ Unwrap(outcome) \in UserAborts) =>
            (requests = 0 /\ response = None /\ sent = <<>>))
    /\ [](pc = "exited" <=> IsSome(exit))

\* the input ended at the second prompt, after a turn with a tool batch; main
\* returned Ok
C11_Witness ==
    /\ pc = "exited"
    /\ exit = Some(Ok(None))
    /\ lines = 1
    /\ issued >= 1
    /\ Len(ctx) >= 4

\* C12 as stated: whenever a task of the batch of the last response has been
\* started, the context already holds, right after the messages that were sent,
\* the Assistant message that carries the tool calls of the batch.
C12_AssistantBeforeDispatch ==
    (ToolsRequested /\ handles # <<>>) =>
        /\ Len(ctx) > Len(sent)
        /\ ctx[Len(sent) + 1] = AssistantMsg(tool_calls)

\* C13: ai leaves the join loop only for the next request, and then every task
\* of the batch has finished, every handle is joined and the context holds the
\* messages that were sent, the Assistant message and one Tool message per task
\* that ended normally, with the content and the id of that task; a request is
\* sent only from the point where ai starts, never while one is outstanding, and
\* it carries the whole context; while ai is about to send a request or waits
\* for the response no task of the current batch exists; a task is left running
\* without a handle only by a batch that was not accepted (whose next call is
\* invalid).
C13_Barrier ==
    /\ [][(pc = "join" /\ pc' # "join") =>
            /\ pc' = "ai"
            /\ ctx' = ctx
            /\ joined = Len(handles)
            /\ \A k \in 1..Len(handles) : Finished(handles[k])
            /\ Len(ctx) = Len(sent) + 1 + Done(Len(handles))
            /\ \A k \in 1..Len(handles) :
                handles[k].st = "done" =>
                    Answer(k, ToolMsg(ToolContent(handles[k].result), handles[k].call.id))]_vars
    /\ [][requests' # requests =>
            \/ /\ pc = "ai"
               /\ pc' = "awaitModel"
               /\ requests' = requests + 1
               /\ sent' = ctx
               /\ response' = None
            \/ pc = "save" /\ requests' = 0]_vars
    /\ [][pc' = "awaitModel" => (pc = "awaitModel" \/ requests' = requests + 1)]_vars
    /\ [](pc \in {"ai", "awaitModel"} => (handles = <<>> /\ joined = 0))
    /\ [][Len(orphans') > Len(orphans) =>
            /\ pc = "save"
            /\ ToolsRequested
            /\ Len(handles) < Len(tool_calls)
            /\ ~WellFormed(tool_calls[Len(handles) + 1])]_vars

\* the second request of a turn is outstanding; it carries the Tool messages of
\* a batch of two calls, one of which could not be waited for
C13_Witness ==
    /\ pc = "awaitModel"
    /\ requests = 2
    /\ Len(sent) = 5
    /\ sent[4].role = "tool"
    /\ sent[5].role = "tool"
    /\ sent[5].content = Some(<<"error: ", "wait">>)
    /\ ctx = sent

\* the same task had the call carried another timeout, or none
WithTimeout(t, x) == [t EXCEPT !.args.timeout = x]

Timeouts == {None, Some(0), Some(10)}

\* the ways a task ends normally: the refusal, a failed spawn, a failed wait,
\* the output of the command
TaskResults ==
    {Err("eyre", "not executing dangerous command"), Err("io::Error", "spawn"),
     Err("io::Error", "wait"), Ok(Some(OutputJson("0")))}

RECURSIVE Range(_)
Range(s) == IF s = <<>> THEN {} ELSE {Head(s)} \cup Range(Tail(s))

\* C14: whatever timeout a call carries, its task can do exactly what it could
\* do with any other timeout or with none, and it ends only in the ways
\* execute_bash ends, none of them a timeout; while the program runs a command
\* that was started stays a task, with or without a handle, until its task ends
\* by itself; and as long as a command of the batch that is joined has not
\* ended, ai stays in the join loop: no request is sent and the turn has no
\* result.
C14_TimeoutNotEnforced ==
    /\ [](\A t \in Range(handles) \cup Range(orphans) :
            /\ \A x \in Timeouts :
                ExecuteBashStep(WithTimeout(t, x))
                    = {WithTimeout(u, x) : u \in ExecuteBashStep(t)}
            /\ t.st = "done" => t.result \in TaskResults)
    /\ [][(pc = "join" /\ \E k \in 1..Len(handles) : handles[k].st = "child") =>
            /\ pc' = "join"
            /\ requests' = requests
            /\ sent' = sent
            /\ outcome' = None
            /\ exit' = None
            /\ Len(handles') = Len(handles)]_vars
    /\ [][\A k \in 1..Len(handles) :
            (handles[k].st = "child" /\ exit' = None) =>
                \/ /\ Len(handles') >= Len(handles)
                   /\ handles'[k].call = handles[k].call
                   /\ handles'[k].st \in {"child", "done", "panicked"}
                \/ /\ pc = "save"
                   /\ handles[k] \in Range(orphans')]_vars
    /\ [][\A k \in 1..Len(orphans) :
            (orphans[k].st = "child" /\ exit' = None) =>
                \/ orphans[k] \in Range(orphans')
                \/ /\ Len(orphans') = Len(orphans) - 1
                   /\ pc' = pc
                   /\ handles' = handles]_vars

\* of a batch of two calls with a timeout of 10 seconds the first command has
\* ended and its output is in the context, the second one is still running
C14_Witness ==
    /\ pc = "join"
    /\ Len(handles) = 2
    /\ joined = 1
    /\ handles[1].args.timeout = Some(10)
    /\ handles[1].st = "done"
    /\ handles[1].result = Ok(Some(OutputJson("0")))
    /\ handles[2].args.timeout = Some(10)
    /\ handles[2].st = "child"
    /\ ctx[Len(ctx)] = ToolMsg(OutputJson("0"), handles[1].call.id)

\* where main is during a turn
TurnPcs == {"ai", "awaitModel", "validate", "join"}

\* C15: whatever the number of requests of the turn so far, ai at its start
\* sends a request, and after a batch is joined ai starts again; a turn ends
\* only when a response arrives that has no tool-call list (with the text as
\* the result, or the error that it has no content), when the request fails or
\* has no choices, or when a call of a batch is invalid; in particular the turn
\* has a result only after a response without a tool-call list.
C15_TurnEndsOnlyOnTextOrError ==
    /\ [][(pc = "ai" /\ pc' # "ai") =>
            (pc' = "awaitModel" /\ requests' = requests + 1 /\ outcome' = None)]_vars
    /\ [][(pc = "join" /\ pc' # "join") => (pc' = "ai" /\ outcome' = None)]_vars
    /\ [][(pc \in TurnPcs /\ pc' \notin TurnPcs) =>
            /\ pc' = "save"
            /\ IsSome(outcome')
            /\ \/ /\ pc = "awaitModel"
                  /\ Answered'
                  /\ Unwrap(response').choices = 1
                  /\ Unwrap(response').tool_calls = None
                  /\ IsSome(Unwrap(response').content)
                  /\ outcome' = Some(Ok(Unwrap(response').content))
               \/ /\ pc = "awaitModel"
                  /\ Unwrap(outcome') \in ServiceErrors \cup {RequestError}
                  /\ ~ToolsRequested'
               \/ /\ pc = "validate"
                  /\ Unwrap(outcome') \in ProtocolErrors
                  /\ \E k \in 1..Len(tool_calls) : ~WellFormed(tool_calls[k])]_vars
    /\ [](pc \in TurnPcs => outcome = None)

\* the third request of a turn is outstanding: two batches were answered before
C15_Witness ==
    /\ pc = "awaitModel"
    /\ requests = 3
    /\ lines = 1
    /\ Len(sent) = 6
    /\ sent[3].role = "assistant"
    /\ sent[5].role = "assistant"

\* the index of the first call of the batch that is not valid
FirstInvalid(calls) ==
    CHOOSE i \in 1..Len(calls) :
        ~WellFormed(calls[i]) /\ \A j \in 1..(i - 1) : WellFormed(calls[j])

\* C16: in a batch whose first invalid call is at index i a task is started
\* for the calls below i only, in the order of the calls, and when the turn has
\* failed for exactly those; the context stays the one that was sent. When main
\* goes on after the failure the tasks that have not ended are left running
\* without a handle, and they can go on running. A Tool message is appended
\* only by the join loop of a batch all of whose calls are valid, for the
\* handle it joins; a step of a task without a handle leaves the context alone.
C16_StartedBelowFirstInvalid ==
    /\ []((ToolsRequested /\ \E k \in 1..Len(tool_calls) : ~WellFormed(tool_calls[k])) =>
            /\ Len(handles) < FirstInvalid(tool_calls)
            /\ \A k \in 1..Len(handles) : handles[k].call = tool_calls[k]
            /\ pc = "save" => Len(handles) = FirstInvalid(tool_calls) - 1
            /\ ctx = sent)
    /\ [][(pc = "save" /\ pc' # "save" /\ exit' = None) =>
            /\ \A k \in 1..Len(handles) :
                ~Finished(handles[k]) => handles[k] \in Range(orphans')
            /\ Len(orphans') =
                Len(orphans) + Cardinality({k \in 1..Len(handles) : ~Finished(handles[k])})]_vars
    /\ []((orphans # <<>> /\ exit = None) =>
            /\ \A k \in 1..Len(orphans) : orphans[k].st \in {"start", "child"}
            /\ ENABLED OrphanStep)
    /\ [][orphans' # orphans => ctx' = ctx]_vars
    /\ [][(Len(ctx') > Len(ctx) /\ ctx'[Len(ctx')].role = "tool") =>
            /\ pc = "join"
            /\ joined < Len(handles)
            /\ \A k \in 1..Len(tool_calls) : WellFormed(tool_calls[k])
            /\ ctx' = Append(ctx, ToolMsg(ToolContent(handles[joined + 1].result),
                                          handles[joined + 1].call.id))]_vars

\* the second call of a batch was invalid; the turn has failed and main is back
\* at the prompt while the command of the first call runs; the context holds
\* the System and the User message only
C16_Witness ==
    /\ pc = "prompt"
    /\ lines = 1
    /\ issued = 2
    /\ Len(orphans) = 1
    /\ orphans[1].st = "child"
    /\ Len(ctx) = 2

\* the context holds the User message of the line of the turn and, after it,
\* Assistant and Tool messages only
HoldsTurn(c) ==
    \E p \in 2..Len(c) :
        /\ c[p] = UserMsg(Unwrap(line))
        /\ \A m \in (p + 1)..Len(c) : c[m].role \in {"assistant", "tool"}

\* C17: the step in which a turn fails leaves the context as it is, and when a
\* turn has failed the context is the one of the last request of the turn: it
\* holds the User message of the turn and the Assistant and Tool messages
\* pushed since; saving the history and printing the error leave the context as
\* it is; the next line, unless it clears the context, is appended to that
\* context, and the request that follows carries the whole of it.
C17_FailureKeepsContext ==
    /\ [][(pc \in TurnPcs /\ pc' = "save") => ctx' = ctx]_vars
    /\ []((pc = "save" /\ Unwrap(outcome) \in TurnFailures) =>
            /\ ctx = sent
            /\ HoldsTurn(ctx))
    /\ [][(pc \in {"save", "report"}) => ctx' = ctx]_vars
    /\ [][(pc = "save" /\ Unwrap(outcome) \in TurnFailures /\ pc' \notin {"save", "exited"}) =>
            pc' = "report"]_vars
    /\ [][(pc = "report" /\ pc' # "report") => pc' = "prompt"]_vars
    /\ [][(pc = "prompt" /\ pc' = "ai") =>
            (IsSome(line') /\ ctx' = Append(ctx, UserMsg(Unwrap(line'))))]_vars
    /\ [][(pc = "ai" /\ pc' # "ai") => (sent' = ctx /\ ctx' = ctx)]_vars

\* the first request of the second turn is outstanding. It carries the User
\* message of the first turn, the Assistant message of its first batch and the
\* Tool message that answers it, then the new User message; the first turn
\* issued a second batch, which was rejected: that turn failed.
C17_Witness ==
    /\ pc = "awaitModel"
    /\ requests = 1
    /\ lines = 2
    /\ issued = 2
    /\ Len(sent) = 5
    /\ sent[2].role = "user"
    /\ sent[3].role = "assistant"
    /\ Len(Unwrap(sent[3].tool_calls)) = 1
    /\ sent[4].role = "tool"
    /\ sent[5].role = "user"

\* no Tool message after position `from` of c carries the id
Unanswered(c, from, id) ==
    \A m \in (from + 1)..Len(c) : ~(c[m].role = "tool" /\ c[m].tool_call_id = Some(id))

\* C18: while a batch is joined in which a joined task panicked, the context
\* is the context of the request, the Assistant message that lists every call
\* of the batch, and one Tool message per joined task that ended normally, in
\* the order of the calls and with their ids and contents; no Tool message
\* carries the id of the panicked task. The turn has no result, ai leaves the
\* join loop only to start again with that same context, and the request that
\* follows carries it.
C18_PanicLeavesCallUnanswered ==
    /\ []((pc = "join" /\ \E k \in 1..joined : handles[k].st = "panicked") =>
            /\ outcome = None
            /\ Len(ctx) = Len(sent) + 1 + Done(joined)
            /\ SubSeq(ctx, 1, Len(sent)) = sent
            /\ ctx[Len(sent) + 1] = AssistantMsg(tool_calls)
            /\ \A k \in 1..joined :
                /\ handles[k].call = tool_calls[k]
                /\ handles[k].st = "panicked" =>
                    Unanswered(ctx, Len(sent) + 1, tool_calls[k].id)
                /\ handles[k].st = "done" =>
                    ctx[Len(sent) + 1 + Done(k)]
                        = ToolMsg(ToolContent(handles[k].result), tool_calls[k].id))
    /\ [][(pc = "join" /\ pc' # "join" /\ \E k \in 1..joined : handles[k].st = "panicked") =>
            /\ joined = Len(handles)
            /\ pc' = "ai"
            /\ outcome' = None
            /\ ctx' = ctx]_vars
    /\ [][(pc = "ai" /\ pc' # "ai") =>
            (pc' = "awaitModel" /\ sent' = ctx /\ requests' = requests + 1)]_vars

\* the second request of a turn is outstanding; the Assistant message it
\* carries lists two calls, the only Tool message answers the second one: the
\* task of the first one panicked
C18_Witness ==
    /\ pc = "awaitModel"
    /\ requests = 2
    /\ Len(sent) = 4
    /\ sent[3].role = "assistant"
    /\ Len(Unwrap(sent[3].tool_calls)) = 2
    /\ sent[4].role = "tool"
    /\ sent[4].tool_call_id = Some(Unwrap(sent[3].tool_calls)[2].id)
    /\ Unanswered(sent, 3, Unwrap(sent[3].tool_calls)[1].id)

\* the response has a choice whose message carries a tool-call list
CarriesList == Answered /\ Unwrap(response).choices = 1 /\ IsSome(Unwrap(response).tool_calls)

\* C19: after a response whose message carries a tool-call list, with or
\* without text, ai validates and joins the batch: the turn has no result
\* unless a call is invalid, and then it is that error; the text of such a
\* message is in no message of the context, and no Assistant message of the
\* context has a content. When the list is empty nothing is started, the
\* Assistant message that is pushed has zero tool calls and is the last message
\* when ai starts again, and ai then sends the next request. ai returns a text
\* only in the step in which a response arrives that has no tool-call list,
\* and the text is the content of that response.
C19_ListDecidesBranch ==
    /\ [](CarriesList =>
            /\ pc \in {"validate", "join", "ai", "save"}
            /\ pc = "save" =>
                /\ Unwrap(outcome) \in ProtocolErrors
                /\ \E k \in 1..Len(tool_calls) : ~WellFormed(tool_calls[k])
            /\ pc # "save" => outcome = None
            /\ \A m \in 1..Len(ctx) : ctx[m].content # Unwrap(response).content \/ ctx[m].content = None)
    /\ [](\A m \in 1..Len(ctx) : ctx[m].role = "assistant" => ctx[m].content = None)
    /\ []((CarriesList /\ tool_calls = <<>>) =>
            /\ pc \in {"validate", "join", "ai"}
            /\ handles = <<>>
            /\ joined = 0
            /\ pc = "validate" => ctx = sent
            /\ pc \in {"join", "ai"} => ctx = Append(sent, AssistantMsg(<<>>)))
    /\ [][(CarriesList /\ tool_calls = <<>> /\ pc' # pc) =>
            \/ pc = "validate" /\ pc' = "join"
            \/ pc = "join" /\ pc' = "ai"
            \/ pc = "ai" /\ pc' = "awaitModel" /\ requests' = requests + 1 /\ sent' = ctx]_vars
    /\ [][(pc \in TurnPcs /\ IsSome(outcome') /\ Unwrap(outcome').ok) =>
            /\ pc = "awaitModel"
            /\ Answered'
            /\ Unwrap(response').tool_calls = None
            /\ IsSome(Unwrap(response').content)
            /\ outcome' = Some(Ok(Unwrap(response').content))]_vars

\* the second request of a turn is outstanding; the first response carried an
\* empty tool-call list: the request ends with an Assistant message of zero
\* tool calls, no Tool message follows
C19_Witness ==
    /\ pc = "awaitModel"
    /\ requests = 2
    /\ Len(sent) = 3
    /\ sent[2].role = "user"
    /\ sent[3] = AssistantMsg(<<>>)
    /\ ctx = sent

====
